---- MODULE Spec2Model ----
(***************************************************************************)
(* A model of the Farq raster library: the water-body analysis functions   *)
(* of farq/analysis.py (water_stats, water_change, get_water_bodies), the  *)
(* reduction farq/utils.py:sum they call, and the spectral index functions *)
(* of farq/indices.py and farq/core.py.                                    *)
(*                                                                         *)
(* The library is stateless: every operation is a pure function of its    *)
(* arguments.  The state machine is one caller: from "idle" it calls one   *)
(* operation with arguments drawn from bounded sets (the call's arguments  *)
(* and its outcome are recorded in the state), and then returns to idle.   *)
(*                                                                         *)
(* Floating point is modelled by exact arithmetic on extended rationals    *)
(* (finite, +Inf, -Inf, NaN) with the IEEE rules for the special values;   *)
(* Spec does not model rounding.  RoundedSpec computes the arithmetic of   *)
(* farq/analysis.py in binary floating point, rounded to the nearest value *)
(* (ties to even) of MantissaBits significant bits; it settles the claims  *)
(* that rounding decides.  Fixed-width unsigned integers wrap modulo       *)
(* 2^UIntWidth.                                                            *)
(***************************************************************************)
EXTENDS Integers, Sequences, FiniteSets, TLC

VARIABLES pc, op, args, ret, mem

vars == <<pc, op, args, ret, mem>>

-----------------------------------------------------------------------------
(* Bounds of the model.                                                    *)

\* A mask has at most MaxCells pixels (every rows x cols shape within it).
MaxCells == 7

\* The two masks of water_change have at most MaxChangeCells pixels each.
MaxChangeCells == 3

\* Pixel sizes (metres) are drawn from -1 .. MaxPixelSize.
MaxPixelSize == 2

\* min_area (square metres) is None or drawn from 0 .. MaxMinArea.
MaxMinArea == 4

\* A band has at most MaxBandCells pixels.
MaxBandCells == 2

\* The unsigned integer bands have UIntWidth bits.
UIntWidth == 8

-----------------------------------------------------------------------------
(* Extended rationals: a float is NaN, +Inf, -Inf or the finite value      *)
(* n / (d + e * Eps), where Eps stands for the constant 1e-10 of           *)
(* core._normalize.  Ordinary rationals have e = 0.  The denominator is    *)
(* kept positive and the three integers coprime, so equal values are equal *)
(* records.  |e| * Eps < 1 for every value the model builds, so the sign   *)
(* of d + e * Eps is the sign of d, or of e when d = 0.                    *)

Abs(x) == IF x < 0 THEN -x ELSE x

Sign(x) == IF x < 0 THEN -1 ELSE IF x > 0 THEN 1 ELSE 0

RECURSIVE GCD(_, _)
GCD(a, b) == IF b = 0 THEN a ELSE GCD(b, a % b)

NaN == [k |-> "nan", n |-> 0, d |-> 0, e |-> 0]

Inf(s) == [k |-> "inf", n |-> s, d |-> 0, e |-> 0]

Norm(n, d, e) ==
    IF n = 0 THEN [k |-> "fin", n |-> 0, d |-> 1, e |-> 0]
    ELSE LET s == IF d # 0 THEN Sign(d) ELSE Sign(e)
             g == GCD(GCD(Abs(n), Abs(d)), Abs(e))
         IN  [k |-> "fin", n |-> (s * n) \div g, d |-> (s * d) \div g,
              e |-> (s * e) \div g]

Rat(n, d) == Norm(n, d, 0)

FromInt(i) == Rat(i, 1)

IsNaN(x) == x.k = "nan"

IsInf(x) == x.k = "inf"

IsFinite(x) == x.k = "fin"

FNeg(x) == IF x.k = "fin" THEN [x EXCEPT !.n = -x.n]
           ELSE IF x.k = "inf" THEN Inf(-x.n) ELSE NaN

FAdd(x, y) ==
    IF IsNaN(x) \/ IsNaN(y) THEN NaN
    ELSE IF IsInf(x) /\ IsInf(y) THEN (IF x.n = y.n THEN x ELSE NaN)
    ELSE IF IsInf(x) THEN x
    ELSE IF IsInf(y) THEN y
    ELSE LET g == GCD(x.d, y.d)
         IN  Rat(x.n * (y.d \div g) + y.n * (x.d \div g), (x.d \div g) * y.d)

FSub(x, y) == FAdd(x, FNeg(y))

FMul(x, y) ==
    IF IsNaN(x) \/ IsNaN(y) THEN NaN
    ELSE IF IsInf(x) \/ IsInf(y)
         THEN (IF x.n = 0 \/ y.n = 0 THEN NaN ELSE Inf(Sign(x.n) * Sign(y.n)))
    ELSE IF x.n = 0 \/ y.n = 0 THEN FromInt(0)
    ELSE LET g1 == GCD(Abs(x.n), y.d)
             g2 == GCD(Abs(y.n), x.d)
         IN  Rat((x.n \div g1) * (y.n \div g2), (x.d \div g2) * (y.d \div g1))

FDiv(x, y) ==
    IF IsNaN(x) \/ IsNaN(y) THEN NaN
    ELSE IF IsInf(x) /\ IsInf(y) THEN NaN
    ELSE IF IsInf(x) THEN Inf(x.n * (IF y.n < 0 THEN -1 ELSE 1))
    ELSE IF IsInf(y) THEN FromInt(0)
    ELSE IF y.n = 0 THEN (IF x.n = 0 THEN NaN ELSE Inf(Sign(x.n)))
    ELSE FMul(x, Rat(y.d, y.n))

\* x < y, x <= y on finite ordinary rationals (a comparison with NaN is false).
FLt(x, y) ==
    /\ ~IsNaN(x) /\ ~IsNaN(y)
    /\ IF IsInf(x) THEN x.n < 0 /\ ~(IsInf(y) /\ y.n < 0)
       ELSE IF IsInf(y) THEN y.n > 0
       ELSE x.n * y.d < y.n * x.d

FLe(x, y) == ~IsNaN(x) /\ ~IsNaN(y) /\ ~FLt(y, x)

\* x / (s + 1e-10) for ordinary x and s: with x = n1/d1 and s = p/q this is
\* (n1 * q) / (d1 * p + d1 * q * Eps).
DivByPlusEps(x, s) ==
    IF IsNaN(x) \/ IsNaN(s) THEN NaN
    ELSE IF IsInf(x) /\ IsInf(s) THEN NaN
    ELSE IF IsInf(s) THEN FromInt(0)
    ELSE IF IsInf(x) THEN Inf(x.n * (IF s.n < 0 THEN -1 ELSE 1))
    ELSE Norm(x.n * s.d, x.d * s.n, x.d * s.d)

\* np.clip(x, -1, 1) on one element: NaN stays NaN, the infinities are
\* clipped.  The denominator d + e * Eps of a finite value is positive.
Clip(x) ==
    IF IsNaN(x) THEN NaN
    ELSE IF IsInf(x) THEN FromInt(x.n)
    ELSE IF x.n > x.d \/ (x.n = x.d /\ x.e < 0) THEN FromInt(1)
    ELSE IF -x.n > x.d \/ (-x.n = x.d /\ x.e < 0) THEN FromInt(-1)
    ELSE x

\* np.nan_to_num(x, nan=0.0, posinf=0.0, neginf=0.0) on one element.
NanToNum(x) == IF IsFinite(x) THEN x ELSE FromInt(0)

-----------------------------------------------------------------------------
(* Arrays: a shape (a tuple of dimensions), an element type and the        *)
(* elements in row-major order.                                            *)

RECURSIVE Prod(_)
Prod(s) == IF s = <<>> THEN 1 ELSE Head(s) * Prod(Tail(s))

Size(a) == Prod(a.shape)

Array(shape, dtype, data) == [shape |-> shape, dtype |-> dtype, data |-> data]

\* The 2-D shapes of at most n elements (no dimension is 0).
Shapes2D(n) == {s \in (1..n) \X (1..n) : s[1] * s[2] <= n}

\* np.zeros((0, 0)): the empty array.
EmptyArray == Array(<<0, 0>>, "int64", <<>>)

\* Every array of the given shape with elements of the set vals.
ArraysOf(shape, dtype, vals) ==
    {Array(shape, dtype, d) : d \in [1..Prod(shape) -> vals]}

\* ndarray.astype(bool): an element is True exactly when it is nonzero.
AsBool(a) == Array(a.shape, "bool", [i \in 1..Size(a) |-> a.data[i] # 0])

\* The number of elements of a sequence equal to v.
RECURSIVE CountFrom(_, _, _)
CountFrom(seq, i, v) ==
    IF i > Len(seq) THEN 0
    ELSE (IF seq[i] = v THEN 1 ELSE 0) + CountFrom(seq, i + 1, v)

Count(seq, v) == CountFrom(seq, 1, v)

-----------------------------------------------------------------------------
(* Outcomes: a call returns a value or raises an exception.                *)

Ok(v) == [ok |-> TRUE, val |-> v, err |-> "none"]

Raise(e) == [ok |-> FALSE, val |-> <<>>, err |-> e]

\* An argument that is not a numpy array (a list, say).
NotAnArray == Array(<<>>, "list", <<>>)

isinstance_ndarray(a) == a.dtype # "list"

\* Optional[float]: None, or a number.
None == [none |-> TRUE, v |-> 0]

Some(x) == [none |-> FALSE, v |-> x]

-----------------------------------------------------------------------------
(* farq/utils.py                                                           *)

\* np.isnan on one element: only a float can be NaN.
isnan(dtype, v) == dtype = "float64" /\ IsNaN(v)

\* validate_array: the exception it raises, or "none".
validate_array(array) ==
    IF ~isinstance_ndarray(array) THEN "TypeError"
    ELSE IF Size(array) = 0 THEN "ValueError"
    ELSE IF \A i \in 1..Size(array) : isnan(array.dtype, array.data[i])
         THEN "ValueError"
    ELSE "none"

\* np.nansum over the whole array: a boolean array sums to its number of True
\* elements, an integer array to the sum of its elements, and a float array
\* to the sum of its elements that are not NaN.
RECURSIVE nansum(_, _)
nansum(array, i) ==
    IF i > Size(array) THEN FromInt(0)
    ELSE LET v == array.data[i]
             x == IF array.dtype = "bool" THEN FromInt(IF v THEN 1 ELSE 0)
                  ELSE IF array.dtype = "float64"
                       THEN (IF IsNaN(v) THEN FromInt(0) ELSE v)
                  ELSE IF array.dtype = "uint8" THEN v
                  ELSE FromInt(v)
         IN  FAdd(x, nansum(array, i + 1))

\* A sum that, like mean, checks its result, and takes 0 for "no value".
sum_rejecting_zero(data) ==
    LET e == validate_array(data)
    IN  IF e # "none" THEN Raise(e)
        ELSE IF nansum(data, 1) = FromInt(0) THEN Raise("ValueError")
        ELSE Ok(nansum(data, 1))

\* sum(data) with axis=None.  analysis.py imports sum from farq.core, which
\* defines none; this is the sum of farq.utils, the one the package exports.
sum(data) ==
    LET e == validate_array(data)
    IN  IF e # "none" THEN Raise(e) ELSE Ok(nansum(data, 1))

\* The elements of a float array that are not NaN, in order.
not_nan(array) == SelectSeq(array.data, LAMBDA v : ~IsNaN(v))

\* The sum of a sequence of floats.
RECURSIVE fsum(_)
fsum(seq) == IF seq = <<>> THEN FromInt(0) ELSE FAdd(Head(seq), fsum(Tail(seq)))

\* np.nanmean: the sum of the elements that are not NaN over their number
\* (0 / 0 = NaN when there is none).
nanmean(array) ==
    LET xs == not_nan(array)
    IN  FDiv(fsum(xs), FromInt(Len(xs)))

\* The variance np.nanstd takes the square root of: the mean of the squared
\* deviations of the elements that are not NaN from their mean.
nanvar(array) ==
    LET xs == not_nan(array)
        avg == nanmean(array)
        sq == [i \in 1..Len(xs) |->
                  FMul(FSub(xs[i], avg), FSub(xs[i], avg))]
    IN  FDiv(fsum(sq), FromInt(Len(xs)))

\* np.nanstd: the non-negative number whose square is the variance, held by
\* its square (NaN exactly when the variance is NaN).
nanstd(array) == [sqrt_of |-> nanvar(array)]

\* np.nanmin and np.nanmax: the least and the greatest element that is not
\* NaN, NaN when there is none.
RECURSIVE least(_)
least(seq) ==
    IF Len(seq) = 1 THEN seq[1]
    ELSE LET m == least(Tail(seq))
         IN  IF FLt(m, Head(seq)) THEN m ELSE Head(seq)

nanmin(array) ==
    LET xs == not_nan(array) IN IF xs = <<>> THEN NaN ELSE least(xs)

nanmax(array) ==
    LET xs == not_nan(array)
    IN  IF xs = <<>> THEN NaN
        ELSE FNeg(least([i \in 1..Len(xs) |-> FNeg(xs[i])]))

\* mean, std, min and max with axis=None: validate, reduce, and raise when
\* the result is NaN.
mean(data) ==
    LET e == validate_array(data)
    IN  IF e # "none" THEN Raise(e)
        ELSE IF IsNaN(nanmean(data)) THEN Raise("ValueError")
        ELSE Ok(nanmean(data))

std(data) ==
    LET e == validate_array(data)
    IN  IF e # "none" THEN Raise(e)
        ELSE IF IsNaN(nanstd(data).sqrt_of) THEN Raise("ValueError")
        ELSE Ok(nanstd(data))

min(data) ==
    LET e == validate_array(data)
    IN  IF e # "none" THEN Raise(e)
        ELSE IF IsNaN(nanmin(data)) THEN Raise("ValueError")
        ELSE Ok(nanmin(data))

max(data) ==
    LET e == validate_array(data)
    IN  IF e # "none" THEN Raise(e)
        ELSE IF IsNaN(nanmax(data)) THEN Raise("ValueError")
        ELSE Ok(nanmax(data))

\* The slices of a 2-D array along an axis, one per index of the result of a
\* reduction along it: its columns for axis=0 and its rows for axis=1.
along_axis(array, axis) ==
    LET rows == array.shape[1]
        cols == array.shape[2]
    IN  IF axis = 0
        THEN [j \in 1..cols |->
                 Array(<<rows>>, array.dtype,
                       [i \in 1..rows |-> array.data[(i - 1) * cols + j]])]
        ELSE [i \in 1..rows |->
                 Array(<<cols>>, array.dtype,
                       [j \in 1..cols |-> array.data[(i - 1) * cols + j]])]

\* A check that rejects a result only when all of it is NaN.
isnan_all(result) == \A k \in 1..Len(result) : IsNaN(result[k])

\* np.isnan(result).any() on the result of a reduction along an axis.
isnan_any(result) == \E k \in 1..Len(result) : IsNaN(result[k])

\* mean, std, min and max along an axis: validate, reduce every slice, and
\* raise when the result holds a NaN.
mean_axis(data, axis) ==
    LET e == validate_array(data)
    IN  IF e # "none" THEN Raise(e)
        ELSE LET slices == along_axis(data, axis)
                 result == [k \in 1..Len(slices) |-> nanmean(slices[k])]
             IN  IF isnan_any(result) THEN Raise("ValueError")
                 ELSE Ok(result)

std_axis(data, axis) ==
    LET e == validate_array(data)
    IN  IF e # "none" THEN Raise(e)
        ELSE LET slices == along_axis(data, axis)
                 result == [k \in 1..Len(slices) |-> nanvar(slices[k])]
             IN  IF isnan_any(result) THEN Raise("ValueError")
                 ELSE Ok([k \in 1..Len(slices) |-> nanstd(slices[k])])

min_axis(data, axis) ==
    LET e == validate_array(data)
    IN  IF e # "none" THEN Raise(e)
        ELSE LET slices == along_axis(data, axis)
                 result == [k \in 1..Len(slices) |-> nanmin(slices[k])]
             IN  IF isnan_any(result) THEN Raise("ValueError")
                 ELSE Ok(result)

max_axis(data, axis) ==
    LET e == validate_array(data)
    IN  IF e # "none" THEN Raise(e)
        ELSE LET slices == along_axis(data, axis)
                 result == [k \in 1..Len(slices) |-> nanmax(slices[k])]
             IN  IF isnan_any(result) THEN Raise("ValueError")
                 ELSE Ok(result)

-----------------------------------------------------------------------------
(* farq/analysis.py                                                        *)

\* A pixel size argument: a number, a tuple of numbers, or something else.
Num(x) == [kind |-> "num", v |-> <<x>>]

Tuple(t) == [kind |-> "tuple", v |-> t]

\* A pixel-size block that rejects negative sizes only, and accepts zero.
pixel_area_nonnegative(pixel_size) ==
    IF pixel_size.kind = "num"
    THEN (IF pixel_size.v[1] < 0 THEN Raise("ValueError")
          ELSE Ok(FDiv(FromInt(pixel_size.v[1] * pixel_size.v[1]),
                       FromInt(1000000))))
    ELSE IF pixel_size.kind = "tuple"
    THEN (IF Len(pixel_size.v) # 2 THEN Raise("ValueError")
          ELSE IF \E i \in 1..2 : pixel_size.v[i] < 0 THEN Raise("ValueError")
          ELSE Ok(FDiv(FromInt(pixel_size.v[1] * pixel_size.v[2]),
                       FromInt(1000000))))
    ELSE Raise("TypeError")

\* The pixel-size block shared by water_stats, water_change and
\* get_water_bodies: the pixel area in km2, or the exception raised.
pixel_area_of(pixel_size) ==
    IF pixel_size.kind = "num"
    THEN (IF pixel_size.v[1] <= 0 THEN Raise("ValueError")
          ELSE Ok(FDiv(FromInt(pixel_size.v[1] * pixel_size.v[1]),
                       FromInt(1000000))))
    ELSE IF pixel_size.kind = "tuple"
    THEN (IF Len(pixel_size.v) # 2 THEN Raise("ValueError")
          ELSE IF \E i \in 1..2 : pixel_size.v[i] <= 0 THEN Raise("ValueError")
          ELSE Ok(FDiv(FromInt(pixel_size.v[1] * pixel_size.v[2]),
                       FromInt(1000000))))
    ELSE Raise("TypeError")

\* A water_stats that reports the covered fraction, not the percentage.
coverage_fraction(total_pixels, size) == FDiv(total_pixels, FromInt(size))

\* coverage = (total_pixels / mask.size) * 100
coverage_of(total_pixels, size) ==
    FMul(FDiv(total_pixels, FromInt(size)), FromInt(100))

water_stats(water_mask, pixel_size) ==
    IF ~isinstance_ndarray(water_mask) THEN Raise("TypeError")
    ELSE IF Size(water_mask) = 0 THEN Raise("ValueError")
    ELSE LET pa == pixel_area_of(pixel_size)
         IN  IF ~pa.ok THEN pa
             ELSE LET mask == AsBool(water_mask)
                      total_pixels == sum(mask)
                  IN  IF ~total_pixels.ok THEN total_pixels
                      ELSE Ok([total_area |-> FMul(total_pixels.val, pa.val),
                               coverage_percent |->
                                   coverage_of(total_pixels.val, Size(mask))])

\* A water_change that forgets to negate mask1 when it computes the gain.
logical_and_unnegated(a, b) ==
    Array(a.shape, "bool", [i \in 1..Size(a) |-> a.data[i] /\ b.data[i]])

\* A water_change that takes for gained every pixel that is dry in mask1 or
\* wet in mask2.
logical_or_not_first(a, b) ==
    Array(a.shape, "bool", [i \in 1..Size(a) |-> (~a.data[i]) \/ b.data[i]])

\* np.logical_and(~a, b) and np.logical_and(a, ~b) on boolean arrays.
logical_and_not_first(a, b) ==
    Array(a.shape, "bool", [i \in 1..Size(a) |-> (~a.data[i]) /\ b.data[i]])

\* A water_change that forgets to negate mask2 when it computes the loss.
logical_and_second_unnegated(a, b) ==
    Array(a.shape, "bool", [i \in 1..Size(a) |-> a.data[i] /\ b.data[i]])

\* A water_change that computes the loss as it computes the gain.
logical_and_not_first_again(a, b) ==
    Array(a.shape, "bool", [i \in 1..Size(a) |-> (~a.data[i]) /\ b.data[i]])

logical_and_not_second(a, b) ==
    Array(a.shape, "bool", [i \in 1..Size(a) |-> a.data[i] /\ ~b.data[i]])

\* A water_change that divides by the original area without testing it.
change_percent_unguarded(net_change, original_area, gained_area) ==
    FMul(FDiv(net_change, original_area), FromInt(100))

\* A water_change that reports the change as a fraction.
change_percent_fraction(net_change, original_area, gained_area) ==
    IF FLt(FromInt(0), original_area)
    THEN FDiv(net_change, original_area)
    ELSE IF FLt(FromInt(0), gained_area) THEN Inf(1) ELSE FromInt(0)

\* The percentage change relative to the original area.
change_percent_of(net_change, original_area, gained_area) ==
    IF FLt(FromInt(0), original_area)
    THEN FMul(FDiv(net_change, original_area), FromInt(100))
    ELSE IF FLt(FromInt(0), gained_area) THEN Inf(1) ELSE FromInt(0)

\* A water_change that compares the masks' sizes, not their shapes.
sizes_differ(m1, m2) == Size(m1) # Size(m2)

\* mask1.shape != mask2.shape
shapes_differ(m1, m2) == m1.shape # m2.shape

water_change(m1, m2, pixel_size) ==
    IF ~isinstance_ndarray(m1) \/ ~isinstance_ndarray(m2)
    THEN Raise("TypeError")
    ELSE IF shapes_differ(m1, m2) THEN Raise("ValueError")
    ELSE IF Size(m1) = 0 \/ Size(m2) = 0 THEN Raise("ValueError")
    ELSE LET pa == pixel_area_of(pixel_size)
         IN  IF ~pa.ok THEN pa
             ELSE LET mask1 == AsBool(m1)
                      mask2 == AsBool(m2)
                      gained == logical_and_not_first(mask1, mask2)
                      lost == logical_and_not_second(mask1, mask2)
                      sg == sum(gained)
                      sl == sum(lost)
                      so == sum(mask1)
                  IN  IF ~sg.ok THEN sg
                      ELSE IF ~sl.ok THEN sl
                      ELSE IF ~so.ok THEN so
                      ELSE LET gained_area == FMul(sg.val, pa.val)
                               lost_area == FMul(sl.val, pa.val)
                               net_change == FSub(gained_area, lost_area)
                               original_area == FMul(so.val, pa.val)
                               change_percent ==
                                   change_percent_of(net_change, original_area,
                                                     gained_area)
                           IN  Ok([gained_area |-> gained_area,
                                   lost_area |-> lost_area,
                                   net_change |-> net_change,
                                   change_percent |-> change_percent])

-----------------------------------------------------------------------------
(* scipy.ndimage.label with its default structuring element: two pixels    *)
(* are neighbours when they are horizontally or vertically adjacent, and   *)
(* the regions are numbered from 1 in the row-major order of their first   *)
(* pixel.                                                                  *)

RowOf(shape, i) == (i - 1) \div shape[2]

ColOf(shape, i) == (i - 1) % shape[2]

\* A labelling under 8-connectivity: diagonal pixels are neighbours too.
Adjacent8(shape, i, j) ==
    /\ i # j
    /\ Abs(RowOf(shape, i) - RowOf(shape, j)) <= 1
    /\ Abs(ColOf(shape, i) - ColOf(shape, j)) <= 1

Adjacent(shape, i, j) ==
    \/ RowOf(shape, i) = RowOf(shape, j)
       /\ Abs(ColOf(shape, i) - ColOf(shape, j)) = 1
    \/ ColOf(shape, i) = ColOf(shape, j)
       /\ Abs(RowOf(shape, i) - RowOf(shape, j)) = 1

\* The region of the True pixels reachable from the pixels of S.
RECURSIVE Grow(_, _)
Grow(mask, S) ==
    LET N == {j \in 1..Size(mask) :
                 /\ mask.data[j]
                 /\ j \notin S
                 /\ \E i \in S : Adjacent(mask.shape, i, j)}
    IN  IF N = {} THEN S ELSE Grow(mask, S \cup N)

RECURSIVE LabelScan(_, _, _, _)
LabelScan(mask, i, lab, next) ==
    IF i > Size(mask) THEN [labeled |-> Array(mask.shape, "int32", lab),
                            num_features |-> next - 1]
    ELSE IF mask.data[i] /\ lab[i] = 0
         THEN LET region == Grow(mask, {i})
              IN  LabelScan(mask, i + 1,
                            [j \in 1..Size(mask) |->
                                IF j \in region THEN next ELSE lab[j]],
                            next + 1)
         ELSE LabelScan(mask, i + 1, lab, next)

label(mask) == LabelScan(mask, 1, [j \in 1..Size(mask) |-> 0], 1)

\* A bincount that does not skip the background: entry l counts label l-1.
bincount_whole(labeled, n) == [l \in 1..n |-> Count(labeled.data, l - 1)]

\* np.bincount(x)[1:] for labels 0..n: the number of pixels of each label
\* 1..n.
bincount_tail(labeled, n) == [l \in 1..n |-> Count(labeled.data, l)]

\* np.where(areas >= min_pixels)[0] + 1: the labels whose pixel count
\* reaches min_pixels, in increasing order.
valid_labels_of(areas, min_pixels) ==
    SelectSeq([l \in 1..Len(areas) |-> l],
              LAMBDA l : FLe(min_pixels, FromInt(areas[l])))

\* A relabelling that keeps the original number of every valid label.
label_map_unrenumbered(valid_labels, n) ==
    [l \in 0..n |->
        IF \E j \in 1..Len(valid_labels) : valid_labels[j] = l THEN l ELSE 0]

\* label_map = zeros(n + 1); label_map[valid_labels] = arange(1, k + 1).
label_map_of(valid_labels, n) ==
    [l \in 0..n |->
        IF \E j \in 1..Len(valid_labels) : valid_labels[j] = l
        THEN CHOOSE j \in 1..Len(valid_labels) : valid_labels[j] = l
        ELSE 0]

\* A dictionary with a key for every region, discarded or not.
areas_dict_of_every_region(areas, valid_labels, pixel_area) ==
    [i \in 1..Len(areas) |-> FMul(FromInt(areas[i]), pixel_area)]

\* The dictionary of areas built when min_area is given.
filtered_areas_dict(areas, valid_labels, pixel_area) ==
    [i \in 1..Len(valid_labels) |-> FMul(FromInt(areas[i]), pixel_area)]

\* A dictionary keyed by the position of each region in areas, from 0.
areas_dict_from_zero(areas, num_features, pixel_area) ==
    [i \in 0..(num_features - 1) |-> FMul(FromInt(areas[i + 1]), pixel_area)]

\* The dictionary of areas built when min_area is None.
areas_dict_of(areas, num_features, pixel_area) ==
    [i \in 1..num_features |-> FMul(FromInt(areas[i]), pixel_area)]

get_water_bodies(water_mask, pixel_size, min_area) ==
    IF ~isinstance_ndarray(water_mask) THEN Raise("TypeError")
    ELSE IF Size(water_mask) = 0 THEN Raise("ValueError")
    ELSE LET pa == pixel_area_of(pixel_size)
         IN  IF ~pa.ok THEN pa
             ELSE LET mask == AsBool(water_mask)
                      lb == label(mask)
                      labeled_mask == lb.labeled
                      num_features == lb.num_features
                      areas == bincount_tail(labeled_mask, num_features)
                  IN  IF ~min_area.none
                      THEN LET min_pixels ==
                                   FDiv(FromInt(min_area.v),
                                        FMul(pa.val, FromInt(1000000)))
                               valid_labels ==
                                   valid_labels_of(areas, min_pixels)
                               label_map ==
                                   label_map_of(valid_labels, num_features)
                           IN  Ok([labeled |->
                                       Array(labeled_mask.shape, "int64",
                                         [i \in 1..Size(labeled_mask) |->
                                             label_map[labeled_mask.data[i]]]),
                                   areas |->
                                       filtered_areas_dict(areas, valid_labels,
                                                           pa.val)])
                      ELSE Ok([labeled |-> labeled_mask,
                               areas |-> areas_dict_of(areas, num_features,
                                                       pa.val)])

-----------------------------------------------------------------------------
(* Binary floating point with rounding.  A finite float is m * 2^x with    *)
(* m = 0 (and x = 0) or 2^(MantissaBits-1) <= |m| < 2^MantissaBits, so     *)
(* that equal numbers are equal records; every operation returns the float *)
(* nearest to its exact result, ties to the even m.  The exponent is not   *)
(* bounded (the areas are far from the ends of the range of a float64).    *)

\* A float64 has 53 significant bits; the model rounds to MantissaBits.
MantissaBits == 4

Float(m, x) == [k |-> "fin", m |-> m, x |-> x]

FloatZero == Float(0, 0)

\* The integer nearest to n / d, ties to even (n >= 0, d > 0).
RoundHalfEven(n, d) ==
    LET q == n \div d
        r == n % d
    IN  IF 2 * r > d \/ (2 * r = d /\ q % 2 = 1) THEN q + 1 ELSE q

\* The float nearest to (n / d) * 2^x, for n > 0 and d > 0.
RECURSIVE fl_scaled(_, _, _)
fl_scaled(n, d, x) ==
    IF n >= d * 2 ^ MantissaBits THEN fl_scaled(n, 2 * d, x + 1)
    ELSE IF n < d * 2 ^ (MantissaBits - 1) THEN fl_scaled(2 * n, d, x - 1)
    ELSE LET m == RoundHalfEven(n, d)
         IN  IF m = 2 ^ MantissaBits
             THEN Float(2 ^ (MantissaBits - 1), x + 1)
             ELSE Float(m, x)

\* The float nearest to (n / d) * 2^x, for any integer n and d > 0.
fl(n, d, x) ==
    IF n = 0 THEN FloatZero
    ELSE IF n > 0 THEN fl_scaled(n, d, x)
    ELSE LET r == fl_scaled(-n, d, x) IN Float(-r.m, r.x)

\* float(n) for an integer n (the true division n / d of two integers is
\* fl(n, d, 0)).
fl_int(n) == fl(n, 1, 0)

fl_mul(a, b) == fl(a.m * b.m, 1, a.x + b.x)

fl_div(a, b) ==
    IF b.m > 0 THEN fl(a.m, b.m, a.x - b.x) ELSE fl(-a.m, -b.m, a.x - b.x)

fl_add(a, b) ==
    IF a.m = 0 THEN b
    ELSE IF b.m = 0 THEN a
    ELSE LET x == IF a.x < b.x THEN a.x ELSE b.x
         IN  fl(a.m * 2 ^ (a.x - x) + b.m * 2 ^ (b.x - x), 1, x)

fl_sub(a, b) == fl_add(a, Float(-b.m, b.x))

\* a <= b on finite floats.
fl_le(a, b) ==
    LET x == IF a.x < b.x THEN a.x ELSE b.x
    IN  a.m * 2 ^ (a.x - x) <= b.m * 2 ^ (b.x - x)

-----------------------------------------------------------------------------
(* farq/analysis.py in floating point.  The checks, the masks and the      *)
(* labelling are those of the functions above; the areas are floats.       *)

\* pixel_area = (pixel_size * pixel_size) / 1_000_000, or the exception the
\* pixel-size block raises.
pixel_area_rounded(pixel_size) ==
    IF pixel_size.kind = "num"
    THEN (IF pixel_size.v[1] <= 0 THEN Raise("ValueError")
          ELSE Ok(fl(pixel_size.v[1] * pixel_size.v[1], 1000000, 0)))
    ELSE IF pixel_size.kind = "tuple"
    THEN (IF Len(pixel_size.v) # 2 THEN Raise("ValueError")
          ELSE IF \E i \in 1..2 : pixel_size.v[i] <= 0 THEN Raise("ValueError")
          ELSE Ok(fl(pixel_size.v[1] * pixel_size.v[2], 1000000, 0)))
    ELSE Raise("TypeError")

\* The number of True elements of a boolean array: sum(mask), an integer.
sum_of_mask(mask) == Cardinality({i \in 1..Size(mask) : mask.data[i]})

water_stats_rounded(water_mask, pixel_size) ==
    IF ~isinstance_ndarray(water_mask) THEN Raise("TypeError")
    ELSE IF Size(water_mask) = 0 THEN Raise("ValueError")
    ELSE LET pa == pixel_area_rounded(pixel_size)
         IN  IF ~pa.ok THEN pa
             ELSE LET mask == AsBool(water_mask)
                      total_pixels == sum_of_mask(mask)
                  IN  Ok([total_area |-> fl_mul(fl_int(total_pixels), pa.val),
                          coverage_percent |->
                              fl_mul(fl(total_pixels, Size(mask), 0),
                                     fl_int(100))])

water_change_rounded(m1, m2, pixel_size) ==
    IF ~isinstance_ndarray(m1) \/ ~isinstance_ndarray(m2)
    THEN Raise("TypeError")
    ELSE IF shapes_differ(m1, m2) THEN Raise("ValueError")
    ELSE IF Size(m1) = 0 \/ Size(m2) = 0 THEN Raise("ValueError")
    ELSE LET pa == pixel_area_rounded(pixel_size)
         IN  IF ~pa.ok THEN pa
             ELSE LET mask1 == AsBool(m1)
                      mask2 == AsBool(m2)
                      gained == logical_and_not_first(mask1, mask2)
                      lost == logical_and_not_second(mask1, mask2)
                      gained_area ==
                          fl_mul(fl_int(sum_of_mask(gained)), pa.val)
                      lost_area == fl_mul(fl_int(sum_of_mask(lost)), pa.val)
                      net_change == fl_sub(gained_area, lost_area)
                      original_area ==
                          fl_mul(fl_int(sum_of_mask(mask1)), pa.val)
                      change_percent ==
                          IF original_area.m > 0
                          THEN fl_mul(fl_div(net_change, original_area),
                                      fl_int(100))
                          ELSE IF gained_area.m > 0
                          THEN [k |-> "inf", m |-> 1, x |-> 0]
                          ELSE FloatZero
                  IN  Ok([gained_area |-> gained_area,
                          lost_area |-> lost_area,
                          net_change |-> net_change,
                          change_percent |-> change_percent])

get_water_bodies_rounded(water_mask, pixel_size, min_area) ==
    IF ~isinstance_ndarray(water_mask) THEN Raise("TypeError")
    ELSE IF Size(water_mask) = 0 THEN Raise("ValueError")
    ELSE LET pa == pixel_area_rounded(pixel_size)
         IN  IF ~pa.ok THEN pa
             ELSE LET mask == AsBool(water_mask)
                      lb == label(mask)
                      labeled_mask == lb.labeled
                      num_features == lb.num_features
                      areas == bincount_tail(labeled_mask, num_features)
                  IN  IF ~min_area.none
                      THEN LET min_pixels ==
                                   fl_div(fl_int(min_area.v),
                                          fl_mul(pa.val, fl_int(1000000)))
                               valid_labels ==
                                   SelectSeq([l \in 1..Len(areas) |-> l],
                                       LAMBDA l : fl_le(min_pixels,
                                                        fl_int(areas[l])))
                               label_map ==
                                   label_map_of(valid_labels, num_features)
                           IN  Ok([labeled |->
                                       Array(labeled_mask.shape, "int64",
                                         [i \in 1..Size(labeled_mask) |->
                                             label_map[labeled_mask.data[i]]]),
                                   areas |->
                                       [i \in 1..Len(valid_labels) |->
                                           fl_mul(fl_int(areas[i]), pa.val)]])
                      ELSE Ok([labeled |-> labeled_mask,
                               areas |->
                                   [i \in 1..num_features |->
                                       fl_mul(fl_int(areas[i]), pa.val)]])

-----------------------------------------------------------------------------
(* Element-wise arithmetic of numpy.  An element carries its array's type: *)
(* two unsigned integers are subtracted and added modulo 2^UIntWidth, any  *)
(* operation with a float (an element, or a Python scalar) is done in      *)
(* floating point, and true division always is.  The elements of a band of *)
(* either type are held as extended rationals; an unsigned integer k is    *)
(* the rational k / 1.                                                     *)

Modulus == 2 ^ UIntWidth

el(a, i) == [t |-> a.dtype, v |-> a.data[i]]

\* ndarray.astype(float) on one element: the same number, as a float.
as_float(x) == x.v

\* The unsigned integer i modulo 2^UIntWidth, as an element.
el_uint(i) == [t |-> "uint8", v |-> FromInt(i % Modulus)]

el_float(f) == [t |-> "float64", v |-> f]

el_sub(x, y) ==
    IF x.t = "uint8" /\ y.t = "uint8"
    THEN el_uint(x.v.n - y.v.n)
    ELSE el_float(FSub(as_float(x), as_float(y)))

el_add(x, y) ==
    IF x.t = "uint8" /\ y.t = "uint8"
    THEN el_uint(x.v.n + y.v.n)
    ELSE el_float(FAdd(as_float(x), as_float(y)))

\* The float array an element-wise operation yields: data[i] is its result
\* at pixel i.
FloatArray(shape, data) == Array(shape, "float64", data)

\* numpy broadcasting of 2-D shapes: two dimensions agree when they are equal
\* or one of them is 1.
DimsAgree(m, n) == m = n \/ m = 1 \/ n = 1

Broadcastable(s, t) == DimsAgree(s[1], t[1]) /\ DimsAgree(s[2], t[2])

BroadcastDim(m, n) == IF m = 1 THEN n ELSE m

BroadcastShape(s, t) == <<BroadcastDim(s[1], t[1]), BroadcastDim(s[2], t[2])>>

\* The element of a that numpy pairs with element k of an array of shape s.
BroadcastEl(a, s, k) ==
    LET r == IF a.shape[1] = 1 THEN 0 ELSE RowOf(s, k)
        c == IF a.shape[2] = 1 THEN 0 ELSE ColOf(s, k)
    IN  el(a, r * a.shape[2] + c + 1)

\* The shape numpy broadcasts two arrays to; it raises ValueError when
\* the shapes do not agree.
broadcast2(s, t) ==
    IF ~Broadcastable(s, t) THEN Raise("ValueError")
    ELSE Ok(BroadcastShape(s, t))

\* The same for three arrays, left to right.
broadcast3(s, t, u) ==
    LET st == broadcast2(s, t)
    IN  IF ~st.ok THEN st ELSE broadcast2(st.val, u)

-----------------------------------------------------------------------------
(* farq/indices.py                                                         *)

\* A band check that forgets the test for an empty band.
check_each_band_type_only(bands, i) ==
    IF \E j \in i..Len(bands) : ~isinstance_ndarray(bands[j])
    THEN "TypeError"
    ELSE "none"

\* The first band that is not an array or is empty decides the exception.
RECURSIVE check_each_band(_, _)
check_each_band(bands, i) ==
    IF i > Len(bands) THEN "none"
    ELSE IF ~isinstance_ndarray(bands[i]) THEN "TypeError"
    ELSE IF Size(bands[i]) = 0 THEN "ValueError"
    ELSE check_each_band(bands, i + 1)

\* validate_bands: the exception it raises, or "none".
validate_bands(bands) ==
    IF Len(bands) = 0 THEN "ValueError"
    ELSE LET e == check_each_band(bands, 1)
         IN  IF e # "none" THEN e
             ELSE IF \E i \in 2..Len(bands) : bands[i].shape # bands[1].shape
                  THEN "ValueError"
             ELSE "none"

\* A call of validate_bands: it returns None or raises.
call_validate_bands(bands) ==
    LET e == validate_bands(bands)
    IN  IF e # "none" THEN Raise(e) ELSE Ok(<<>>)

\* (a - b) / (a + b), NaN and the infinities replaced by 0, clipped to
\* [-1, 1]: one pixel of indices.ndvi and indices.ndwi.
normalized_difference(a, b) ==
    Clip(NanToNum(FDiv(as_float(el_sub(a, b)), as_float(el_add(a, b)))))

ndvi(nir, red) ==
    LET e == validate_bands(<<nir, red>>)
    IN  IF e # "none" THEN Raise(e)
        ELSE Ok(FloatArray(nir.shape,
                [i \in 1..Size(nir) |->
                    normalized_difference(el(nir, i), el(red, i))]))

ndwi(green, nir) ==
    LET e == validate_bands(<<green, nir>>)
    IN  IF e # "none" THEN Raise(e)
        ELSE Ok(FloatArray(green.shape,
                [i \in 1..Size(green) |->
                    normalized_difference(el(green, i), el(nir, i))]))

\* One pixel of indices.savi.
savi_pixel(nir, red, L) ==
    Clip(NanToNum(FMul(FDiv(as_float(el_sub(nir, red)),
                            FAdd(as_float(el_add(nir, red)), L)),
                       FAdd(FromInt(1), L))))

\* A savi that rejects the two endpoints of [0, 1].
savi_open_interval(nir, red, L) ==
    LET e == validate_bands(<<nir, red>>)
    IN  IF e # "none" THEN Raise(e)
        ELSE IF ~(FLt(FromInt(0), L) /\ FLt(L, FromInt(1)))
             THEN Raise("ValueError")
        ELSE Ok(FloatArray(nir.shape,
                [i \in 1..Size(nir) |->
                    savi_pixel(el(nir, i), el(red, i), L)]))

savi(nir, red, L) ==
    LET e == validate_bands(<<nir, red>>)
    IN  IF e # "none" THEN Raise(e)
        ELSE IF ~(FLe(FromInt(0), L) /\ FLe(L, FromInt(1)))
             THEN Raise("ValueError")
        ELSE Ok(FloatArray(nir.shape,
                [i \in 1..Size(nir) |->
                    savi_pixel(el(nir, i), el(red, i), L)]))

\* One pixel of indices.evi.
evi_pixel(red, nir, blue, G, C1, C2, L) ==
    LET denominator ==
            FAdd(FSub(FAdd(as_float(nir), FMul(C1, as_float(red))),
                      FMul(C2, as_float(blue))),
                 L)
    IN  Clip(NanToNum(FDiv(FMul(G, as_float(el_sub(nir, red))), denominator)))

evi(red, nir, blue, G, C1, C2, L) ==
    LET e == validate_bands(<<red, nir, blue>>)
    IN  IF e # "none" THEN Raise(e)
        ELSE IF FLt(L, FromInt(0)) THEN Raise("ValueError")
        ELSE IF FLe(G, FromInt(0)) THEN Raise("ValueError")
        ELSE Ok(FloatArray(red.shape,
                [i \in 1..Size(red) |->
                    evi_pixel(el(red, i), el(nir, i), el(blue, i),
                              G, C1, C2, L)]))

-----------------------------------------------------------------------------
(* farq/core.py                                                            *)

\* One pixel of _normalize: both bands converted to float, then
\* (band1 - band2) / (band1 + band2 + 1e-10).
normalize_pixel(x, y) ==
    DivByPlusEps(FSub(as_float(x), as_float(y)),
                 FAdd(as_float(x), as_float(y)))

\* _normalize: astype fails on a value that is not an array, and the
\* arithmetic broadcasts the two bands.
normalize(band1, band2) ==
    IF ~isinstance_ndarray(band1) \/ ~isinstance_ndarray(band2)
    THEN Raise("AttributeError")
    ELSE LET s == broadcast2(band1.shape, band2.shape)
         IN  IF ~s.ok THEN s
             ELSE Ok(FloatArray(s.val,
                     [k \in 1..Prod(s.val) |->
                         normalize_pixel(BroadcastEl(band1, s.val, k),
                                         BroadcastEl(band2, s.val, k))]))

\* np.clip(r, -1, 1) on the array a call computed, if it computed one.
clip_result(r) ==
    IF ~r.ok THEN r
    ELSE Ok(Array(r.val.shape, "float64",
                  [i \in 1..Size(r.val) |-> Clip(r.val.data[i])]))

core_ndvi(nir, red) == clip_result(normalize(nir, red))

core_ndwi(green, nir) == clip_result(normalize(green, nir))

mndwi(green, swir) == clip_result(normalize(green, swir))

ndbi(swir, nir) == clip_result(normalize(swir, nir))

\* One pixel of core.savi, before the clip.
core_savi_pixel(nir, red, L) ==
    FMul(FDiv(FSub(as_float(nir), as_float(red)),
              FAdd(FAdd(as_float(nir), as_float(red)), L)),
         FAdd(FromInt(1), L))

core_savi(nir, red, L) ==
    IF ~isinstance_ndarray(nir) \/ ~isinstance_ndarray(red)
    THEN Raise("AttributeError")
    ELSE LET s == broadcast2(nir.shape, red.shape)
         IN  IF ~s.ok THEN s
             ELSE clip_result(Ok(FloatArray(s.val,
                     [k \in 1..Prod(s.val) |->
                         core_savi_pixel(BroadcastEl(nir, s.val, k),
                                         BroadcastEl(red, s.val, k), L)])))

\* One pixel of core.evi, before the clip.
core_evi_pixel(nir, red, blue, G, C1, C2, L) ==
    FDiv(FMul(G, FSub(as_float(nir), as_float(red))),
         FAdd(FSub(FAdd(as_float(nir), FMul(C1, as_float(red))),
                   FMul(C2, as_float(blue))),
              L))

core_evi(nir, red, blue, G, C1, C2, L) ==
    IF \E b \in {nir, red, blue} : ~isinstance_ndarray(b)
    THEN Raise("AttributeError")
    ELSE LET s == broadcast3(nir.shape, red.shape, blue.shape)
         IN  IF ~s.ok THEN s
             ELSE clip_result(Ok(FloatArray(s.val,
                     [k \in 1..Prod(s.val) |->
                         core_evi_pixel(BroadcastEl(nir, s.val, k),
                                        BroadcastEl(red, s.val, k),
                                        BroadcastEl(blue, s.val, k),
                                        G, C1, C2, L)])))

-----------------------------------------------------------------------------
(* The caller.  Every operation is called with every combination of full   *)
(* data arguments and the main parameter values, and with every            *)
(* combination of a few probe arrays and all parameter values (the         *)
(* validation of a parameter does not read the pixels).                    *)


\* Every 2-D integer array of at most n pixels with elements 0 and 1.
Masks(n) == UNION {ArraysOf(s, "int64", {0, 1}) : s \in Shapes2D(n)}

\* An array filled with one value.
Full(shape, dtype, v) == Array(shape, dtype, [i \in 1..Prod(shape) |-> v])

\* The probes: the empty array, a value that is not an array, and the
\* all-ones arrays of the small shapes.
ProbeShapes == {<<1, 1>>, <<1, 2>>, <<2, 1>>, <<2, 2>>}

ProbeMasks ==
    {EmptyArray, NotAnArray} \cup {Full(s, "int64", 1) : s \in ProbeShapes}

PixelSizes ==
    {Num(x) : x \in -1..MaxPixelSize}
        \cup {Tuple(t) : t \in (0..MaxPixelSize) \X (0..MaxPixelSize)}
        \cup {Tuple(<<1>>), Tuple(<<1, 1, 1>>), [kind |-> "other", v |-> <<>>]}

MainPixelSizes ==
    {Num(x) : x \in 1..MaxPixelSize} \cup {Tuple(<<1, MaxPixelSize>>)}

MinAreas == {None} \cup {Some(x) : x \in 0..MaxMinArea}

\* The band elements: floats (NaN among them) and unsigned integers near
\* both ends of their range.
FloatValues == {FromInt(-1), FromInt(0), FromInt(1), NaN}

UIntValues == {FromInt(1), FromInt(Modulus - 1)}

BandsOfShape(s) ==
    ArraysOf(s, "float64", FloatValues) \cup ArraysOf(s, "uint8", UIntValues)

ProbeBands ==
    {Array(<<0, 0>>, "float64", <<>>), NotAnArray}
        \cup {Full(s, "float64", FromInt(1)) : s \in ProbeShapes}

\* The value a third band is filled with.
ThirdValues == {FromInt(0), FromInt(1), NaN}

\* The defaults of the index parameters, and the values they are probed
\* with.
DefaultSaviL == Rat(1, 2)

DefaultG == Rat(5, 2)

DefaultC1 == FromInt(6)

DefaultC2 == Rat(15, 2)

DefaultEviL == FromInt(1)

SaviLs == {FromInt(-1), FromInt(0), DefaultSaviL, FromInt(1), FromInt(2)}

EviGs == {FromInt(-1), FromInt(0), DefaultG}

EviLs == {FromInt(-1), FromInt(0), DefaultEviL}

NoArgs == [none |-> TRUE]

NoRet == Raise("none")

\* The arrays the caller passes to operation o, in the order of its
\* parameters.
input_arrays(o, a) ==
    CASE o \in {"water_stats", "get_water_bodies"} -> <<a.water_mask>>
      [] o = "water_change" -> <<a.mask1, a.mask2>>
      [] o \in {"sum", "mean", "std", "min", "max"} -> <<a.data>>
      [] o \in {"mean_axis", "std_axis", "min_axis", "max_axis"} -> <<a.data>>
      [] OTHER -> a.bands

\* An array object is the caller's i-th input or one created by the callee.
CallerObject(i) == [owner |-> "caller", index |-> i]

CalleeObject == [owner |-> "callee", index |-> 0]

\* An index function that clips its first band in place.
clip_out_first_band(objects) == objects[1]

\* The object np.clip(ndvi, -1.0, 1.0, out=ndvi) of the indices.py functions
\* writes into: the one the name is bound to, the new array that
\* np.nan_to_num (copy=True) returned for the quotient of the bands, itself
\* a new array.
clip_out_object(objects) == CalleeObject

\* The in-place writes of a call with outcome r: the object written and the
\* elements it holds afterwards.  The indices.py functions clip in place
\* once they have computed, and get_water_bodies fills label_map, the array
\* np.zeros created, when it filters; no other function assigns into an
\* array.
in_place_writes(o, a, r) ==
    IF ~r.ok THEN {}
    ELSE IF o \in {"ndvi", "ndwi", "savi", "evi"}
    THEN {[object |->
               clip_out_object([i \in 1..Len(a.bands) |-> CallerObject(i)]),
           data |-> r.val.data]}
    ELSE IF o = "get_water_bodies" /\ ~a.min_area.none
    THEN {[object |-> CalleeObject, data |-> r.val.labeled.data]}
    ELSE {}

\* The caller's arrays once the call is over.
arrays_after(o, a, r) ==
    LET inputs == input_arrays(o, a)
        writes == in_place_writes(o, a, r)
    IN  [i \in 1..Len(inputs) |->
            IF \E w \in writes : w.object = CallerObject(i)
            THEN LET w == CHOOSE w \in writes : w.object = CallerObject(i)
                 IN  [inputs[i] EXCEPT !.data = w.data]
            ELSE inputs[i]]

Init ==
    /\ pc = "idle"
    /\ op = "none"
    /\ args = NoArgs
    /\ ret = NoRet
    /\ mem = <<>>

\* The caller has called operation o with arguments a and holds its outcome.
Called(o, a, r) ==
    /\ pc' = "done"
    /\ op' = o
    /\ args' = a
    /\ ret' = r
    /\ mem' = arrays_after(o, a, r)

Call_water_stats ==
    /\ pc = "idle"
    /\ \/ \E m \in Masks(MaxCells), ps \in MainPixelSizes :
             Called("water_stats", [water_mask |-> m, pixel_size |-> ps],
                    water_stats(m, ps))
       \/ \E m \in ProbeMasks, ps \in PixelSizes :
             Called("water_stats", [water_mask |-> m, pixel_size |-> ps],
                    water_stats(m, ps))

Call_water_change ==
    /\ pc = "idle"
    /\ \/ \E m1 \in Masks(MaxChangeCells), m2 \in Masks(MaxChangeCells),
             ps \in MainPixelSizes :
             Called("water_change",
                    [mask1 |-> m1, mask2 |-> m2, pixel_size |-> ps],
                    water_change(m1, m2, ps))
       \/ \E m1 \in ProbeMasks, m2 \in ProbeMasks, ps \in PixelSizes :
             Called("water_change",
                    [mask1 |-> m1, mask2 |-> m2, pixel_size |-> ps],
                    water_change(m1, m2, ps))

Call_get_water_bodies ==
    /\ pc = "idle"
    /\ \/ \E m \in Masks(MaxCells), ps \in MainPixelSizes, ma \in MinAreas :
             Called("get_water_bodies",
                    [water_mask |-> m, pixel_size |-> ps, min_area |-> ma],
                    get_water_bodies(m, ps, ma))
       \/ \E m \in ProbeMasks, ps \in PixelSizes, ma \in MinAreas :
             Called("get_water_bodies",
                    [water_mask |-> m, pixel_size |-> ps, min_area |-> ma],
                    get_water_bodies(m, ps, ma))

\* The arrays the reductions of utils.py are called with: floats, NaN and
\* both infinities among them, the empty array and a value that is not an
\* array.
MaxStatCells == 3

StatValues == {FromInt(-1), FromInt(1), NaN, Inf(1), Inf(-1)}

StatArrays ==
    UNION {ArraysOf(s, "float64", StatValues) : s \in Shapes2D(MaxStatCells)}
        \cup {Array(<<0, 0>>, "float64", <<>>), NotAnArray}

Call_sum ==
    /\ pc = "idle"
    /\ \E data \in StatArrays : Called("sum", [data |-> data], sum(data))

Call_mean ==
    /\ pc = "idle"
    /\ \E data \in StatArrays : Called("mean", [data |-> data], mean(data))

Call_std ==
    /\ pc = "idle"
    /\ \E data \in StatArrays : Called("std", [data |-> data], std(data))

Call_min ==
    /\ pc = "idle"
    /\ \E data \in StatArrays : Called("min", [data |-> data], min(data))

Call_max ==
    /\ pc = "idle"
    /\ \E data \in StatArrays : Called("max", [data |-> data], max(data))

\* The caller reduces along an axis: 2-D float arrays with NaN among their
\* values, the empty array and a value that is not an array, along either
\* axis.
AxisArrays ==
    UNION {ArraysOf(s, "float64", {FromInt(-1), FromInt(1), NaN}) :
              s \in Shapes2D(MaxStatCells)}
        \cup {Array(<<0, 0>>, "float64", <<>>), NotAnArray}

Call_mean_axis ==
    /\ pc = "idle"
    /\ \E data \in AxisArrays, axis \in {0, 1} :
          Called("mean_axis", [data |-> data, axis |-> axis],
                 mean_axis(data, axis))

Call_std_axis ==
    /\ pc = "idle"
    /\ \E data \in AxisArrays, axis \in {0, 1} :
          Called("std_axis", [data |-> data, axis |-> axis],
                 std_axis(data, axis))

Call_min_axis ==
    /\ pc = "idle"
    /\ \E data \in AxisArrays, axis \in {0, 1} :
          Called("min_axis", [data |-> data, axis |-> axis],
                 min_axis(data, axis))

Call_max_axis ==
    /\ pc = "idle"
    /\ \E data \in AxisArrays, axis \in {0, 1} :
          Called("max_axis", [data |-> data, axis |-> axis],
                 max_axis(data, axis))

\* Bands that are not 2-D numeric arrays: a vector, a cube and an array of
\* strings (the validator reads no element).
OddBands ==
    {Full(<<2>>, "float64", FromInt(1)),
     Full(<<1, 2, 1>>, "float64", FromInt(1)),
     Full(<<1, 2>>, "str", FromInt(0))}

\* The validator takes any number of bands.
MaxBands == 3

BandLists == UNION {[1..n -> ProbeBands \cup OddBands] : n \in 0..MaxBands}

Call_validate_bands ==
    /\ pc = "idle"
    /\ \E bands \in BandLists :
          Called("validate_bands", [bands |-> bands],
                 call_validate_bands(bands))

\* Two bands of one shape, or two probes.
Call_ndvi ==
    /\ pc = "idle"
    /\ \/ \E s \in Shapes2D(MaxBandCells) :
             \E a \in BandsOfShape(s), b \in BandsOfShape(s) :
                 Called("ndvi", [bands |-> <<a, b>>], ndvi(a, b))
       \/ \E a \in ProbeBands, b \in ProbeBands :
             Called("ndvi", [bands |-> <<a, b>>], ndvi(a, b))

Call_ndwi ==
    /\ pc = "idle"
    /\ \/ \E s \in Shapes2D(MaxBandCells) :
             \E a \in BandsOfShape(s), b \in BandsOfShape(s) :
                 Called("ndwi", [bands |-> <<a, b>>], ndwi(a, b))
       \/ \E a \in ProbeBands, b \in ProbeBands :
             Called("ndwi", [bands |-> <<a, b>>], ndwi(a, b))

Call_savi ==
    /\ pc = "idle"
    /\ \/ \E s \in Shapes2D(MaxBandCells) :
             \E a \in BandsOfShape(s), b \in BandsOfShape(s) :
                 Called("savi", [bands |-> <<a, b>>, L |-> DefaultSaviL],
                        savi(a, b, DefaultSaviL))
       \/ \E a \in ProbeBands, b \in ProbeBands, L \in SaviLs :
             Called("savi", [bands |-> <<a, b>>, L |-> L], savi(a, b, L))

\* Three bands of one shape, the third filled with one value, or three
\* probes.
Call_evi ==
    /\ pc = "idle"
    /\ \/ \E s \in Shapes2D(MaxBandCells) :
             \E a \in BandsOfShape(s), b \in BandsOfShape(s),
                v \in ThirdValues :
                 Called("evi",
                        [bands |-> <<a, b, Full(s, "float64", v)>>,
                         G |-> DefaultG, L |-> DefaultEviL],
                        evi(a, b, Full(s, "float64", v), DefaultG, DefaultC1,
                            DefaultC2, DefaultEviL))
       \/ \E a \in ProbeBands, b \in ProbeBands, c \in ProbeBands,
             G \in EviGs, L \in EviLs :
             Called("evi", [bands |-> <<a, b, c>>, G |-> G, L |-> L],
                    evi(a, b, c, G, DefaultC1, DefaultC2, L))

Call_core_ndvi ==
    /\ pc = "idle"
    /\ \/ \E s \in Shapes2D(MaxBandCells) :
             \E a \in BandsOfShape(s), b \in BandsOfShape(s) :
                 Called("core_ndvi", [bands |-> <<a, b>>], core_ndvi(a, b))
       \/ \E a \in ProbeBands, b \in ProbeBands :
             Called("core_ndvi", [bands |-> <<a, b>>], core_ndvi(a, b))

Call_core_ndwi ==
    /\ pc = "idle"
    /\ \/ \E s \in Shapes2D(MaxBandCells) :
             \E a \in BandsOfShape(s), b \in BandsOfShape(s) :
                 Called("core_ndwi", [bands |-> <<a, b>>], core_ndwi(a, b))
       \/ \E a \in ProbeBands, b \in ProbeBands :
             Called("core_ndwi", [bands |-> <<a, b>>], core_ndwi(a, b))

Call_mndwi ==
    /\ pc = "idle"
    /\ \/ \E s \in Shapes2D(MaxBandCells) :
             \E a \in BandsOfShape(s), b \in BandsOfShape(s) :
                 Called("mndwi", [bands |-> <<a, b>>], mndwi(a, b))
       \/ \E a \in ProbeBands, b \in ProbeBands :
             Called("mndwi", [bands |-> <<a, b>>], mndwi(a, b))

Call_ndbi ==
    /\ pc = "idle"
    /\ \/ \E s \in Shapes2D(MaxBandCells) :
             \E a \in BandsOfShape(s), b \in BandsOfShape(s) :
                 Called("ndbi", [bands |-> <<a, b>>], ndbi(a, b))
       \/ \E a \in ProbeBands, b \in ProbeBands :
             Called("ndbi", [bands |-> <<a, b>>], ndbi(a, b))

Call_core_savi ==
    /\ pc = "idle"
    /\ \/ \E s \in Shapes2D(MaxBandCells) :
             \E a \in BandsOfShape(s), b \in BandsOfShape(s) :
                 Called("core_savi", [bands |-> <<a, b>>, L |-> DefaultSaviL],
                        core_savi(a, b, DefaultSaviL))
       \/ \E a \in ProbeBands, b \in ProbeBands, L \in SaviLs :
             Called("core_savi", [bands |-> <<a, b>>, L |-> L],
                    core_savi(a, b, L))

Call_core_evi ==
    /\ pc = "idle"
    /\ \/ \E s \in Shapes2D(MaxBandCells) :
             \E a \in BandsOfShape(s), b \in BandsOfShape(s),
                v \in ThirdValues :
                 Called("core_evi",
                        [bands |-> <<a, b, Full(s, "float64", v)>>,
                         G |-> DefaultG, L |-> DefaultEviL],
                        core_evi(a, b, Full(s, "float64", v), DefaultG,
                                 DefaultC1, DefaultC2, DefaultEviL))
       \/ \E a \in ProbeBands, b \in ProbeBands, c \in ProbeBands,
             G \in EviGs, L \in EviLs :
             Called("core_evi", [bands |-> <<a, b, c>>, G |-> G, L |-> L],
                    core_evi(a, b, c, G, DefaultC1, DefaultC2, L))

\* The caller takes the outcome and is ready for the next call.
Return ==
    /\ pc = "done"
    /\ pc' = "idle"
    /\ op' = "none"
    /\ args' = NoArgs
    /\ ret' = NoRet
    /\ mem' = <<>>

Next ==
    \/ Call_water_stats
    \/ Call_water_change
    \/ Call_get_water_bodies
    \/ Call_sum
    \/ Call_mean
    \/ Call_std
    \/ Call_min
    \/ Call_max
    \/ Call_mean_axis
    \/ Call_std_axis
    \/ Call_min_axis
    \/ Call_max_axis
    \/ Call_validate_bands
    \/ Call_ndvi
    \/ Call_ndwi
    \/ Call_savi
    \/ Call_evi
    \/ Call_core_ndvi
    \/ Call_core_ndwi
    \/ Call_mndwi
    \/ Call_ndbi
    \/ Call_core_savi
    \/ Call_core_evi
    \/ Return

Spec == Init /\ [][Next]_vars

\* The caller of the analysis functions computed in floating point: masks
\* of at most MaxCells pixels (MaxChangeCells for water_change) and pixel
\* sizes whose areas are 1, 3, 4 and 9 square metres.
RoundedPixelSizes == {Num(1), Num(2), Num(3), Tuple(<<1, 3>>)}

Call_water_stats_rounded ==
    /\ pc = "idle"
    /\ \E m \in Masks(MaxCells), ps \in RoundedPixelSizes :
          Called("water_stats", [water_mask |-> m, pixel_size |-> ps],
                 water_stats_rounded(m, ps))

Call_water_change_rounded ==
    /\ pc = "idle"
    /\ \E m1 \in Masks(MaxChangeCells), m2 \in Masks(MaxChangeCells),
          ps \in RoundedPixelSizes :
          Called("water_change",
                 [mask1 |-> m1, mask2 |-> m2, pixel_size |-> ps],
                 water_change_rounded(m1, m2, ps))

Call_get_water_bodies_rounded ==
    /\ pc = "idle"
    /\ \E m \in Masks(MaxCells), ps \in RoundedPixelSizes, ma \in MinAreas :
          Called("get_water_bodies",
                 [water_mask |-> m, pixel_size |-> ps, min_area |-> ma],
                 get_water_bodies_rounded(m, ps, ma))

RoundedNext ==
    \/ Call_water_stats_rounded
    \/ Call_water_change_rounded
    \/ Call_get_water_bodies_rounded
    \/ Return

RoundedSpec == Init /\ [][RoundedNext]_vars

-----------------------------------------------------------------------------
(* Properties of the water-body analyzer (get_water_bodies).               *)

Done(o) == pc = "done" /\ op = o

\* The area of one pixel in square metres, for a valid pixel size.
PixelM2(ps) == IF ps.kind = "num" THEN ps.v[1] * ps.v[1] ELSE ps.v[1] * ps.v[2]

\* The area in km2 of c pixels of the given size.
AreaKm2(c, ps) == Rat(c * PixelM2(ps), 1000000)

\* Two pixels touch when they share an edge.
Touch(shape, i, j) ==
    Abs(((i - 1) \div shape[2]) - ((j - 1) \div shape[2]))
        + Abs(((i - 1) % shape[2]) - ((j - 1) % shape[2])) = 1

\* A call of get_water_bodies that returned, with or without min_area.
BodiesReturned == Done("get_water_bodies") /\ ret.ok

Filtered == BodiesReturned /\ ~args.min_area.none

Unfiltered == BodiesReturned /\ args.min_area.none

\* The labelling of the call's mask before any filtering.
OrigLabelling == label(AsBool(args.water_mask))

Pixels == 1..Size(args.water_mask)

\* The original labels that still have a nonzero pixel in the returned map.
SurvivorsOf(orig, n, out) ==
    {l \in 1..n : \E i \in 1..Len(orig) : orig[i] = l /\ out[i] # 0}

\* C1: with a min_area, each key i of the returned area mapping is mapped to
\* the area of the region that carries label i in the returned map: the
\* number of pixels equal to i in that map times the pixel area in km2.
C1_AreaOfRelabeledRegion ==
    Filtered =>
        LET out == ret.val.labeled.data
        IN  \A i \in DOMAIN ret.val.areas :
                ret.val.areas[i] = AreaKm2(Count(out, i), args.pixel_size)

\* C2: with a min_area, the surviving regions are renumbered 1..k without
\* gaps in the order of their original labels, every pixel of a discarded
\* region becomes 0 and background pixels stay 0: a pixel of a surviving
\* region l carries the rank of l among the survivors, every other pixel 0.
C2_DenseOrderedRelabel ==
    Filtered =>
        LET lb == OrigLabelling
            orig == lb.labeled.data
            out == ret.val.labeled.data
            surv == SurvivorsOf(orig, lb.num_features, out)
        IN  \A i \in Pixels :
                out[i] = IF orig[i] \in surv
                         THEN Cardinality({l \in surv : l <= orig[i]})
                         ELSE 0

\* C2 witness: three regions of which the first and the third survive and the
\* second is discarded, so that the third is renumbered from 3 to 2.
C2_Witness ==
    /\ Filtered
    /\ LET lb == OrigLabelling
           orig == lb.labeled.data
           out == ret.val.labeled.data
       IN  /\ lb.num_features = 3
           /\ SurvivorsOf(orig, 3, out) = {1, 3}
           /\ \E i \in Pixels : orig[i] = 3 /\ out[i] = 2

\* C3: with a min_area, a region survives exactly when its pixel count is at
\* or above min_area_m2 / pixel_area_m2: every pixel of a region that reaches
\* the threshold (a region of exactly the min_area included) keeps a
\* nonzero label and every pixel of a region strictly below it becomes 0.
C3_InclusiveThreshold ==
    Filtered =>
        LET lb == OrigLabelling
            orig == lb.labeled.data
            out == ret.val.labeled.data
        IN  \A i \in Pixels :
                orig[i] # 0 =>
                    (out[i] # 0 <=>
                        Count(orig, orig[i]) * PixelM2(args.pixel_size)
                            >= args.min_area.v)

\* The labelling part of C4: False pixels get 0, True pixels a positive
\* label, touching True pixels the same label, and no label's pixels split
\* into two parts that do not touch (so two True pixels share a label exactly
\* when they lie in the same connected region); the area mapping has one key
\* per region, mapped to the region's pixel count times the pixel area.
LabelsAreRegions ==
    LET mask == AsBool(args.water_mask).data
        shape == args.water_mask.shape
        out == ret.val.labeled.data
        n == Len(ret.val.areas)
        class == [l \in 1..n |-> {i \in Pixels : out[i] = l}]
    IN  /\ \A i \in Pixels : (~mask[i] => out[i] = 0)
                              /\ (mask[i] => out[i] \in 1..n)
        /\ \A i, j \in Pixels :
              mask[i] /\ mask[j] /\ Touch(shape, i, j) => out[i] = out[j]
        /\ \A l \in 1..n :
              /\ class[l] # {}
              /\ \A S \in SUBSET class[l] :
                    S # {} /\ S # class[l] =>
                        \E i \in S, j \in class[l] \ S : Touch(shape, i, j)
        /\ \A l \in 1..n :
              ret.val.areas[l] = AreaKm2(Cardinality(class[l]), args.pixel_size)

\* The labels that occur in the returned map.
LabelsUsed == {ret.val.labeled.data[i] : i \in Pixels}

\* C4 as stated: without min_area the labelling is as above and the labels
\* used in the returned map are exactly {0, 1, .., n} for n regions.
C4_LabelsZeroToN ==
    Unfiltered =>
        /\ LabelsAreRegions
        /\ LabelsUsed = 0..Len(ret.val.areas)

\* C4 amended: without min_area the labelling is as above and the labels used
\* in the returned map are exactly {1, .., n} for n regions, together with 0
\* when the mask has a False pixel.
C4_LabelsOfRegions ==
    Unfiltered =>
        /\ LabelsAreRegions
        /\ LabelsUsed =
               (1..Len(ret.val.areas))
                   \cup (IF \E i \in Pixels : args.water_mask.data[i] = 0
                         THEN {0} ELSE {})

\* C4 witness: two regions that touch only diagonally, one of them of two
\* pixels or more, in a mask with a False pixel.
C4_Witness ==
    /\ Unfiltered
    /\ LET out == ret.val.labeled.data
           shape == args.water_mask.shape
       IN  /\ 0 \in LabelsUsed
           /\ \E i, j \in Pixels :
                 /\ out[i] > 0 /\ out[j] > 0 /\ out[i] # out[j]
                 /\ Count(out, out[i]) >= 2
                 /\ Abs(RowOf(shape, i) - RowOf(shape, j)) = 1
                 /\ Abs(ColOf(shape, i) - ColOf(shape, j)) = 1

-----------------------------------------------------------------------------
(* Properties of the change analyzer (water_change).                       *)

ValidPixelSize(ps) ==
    \/ ps.kind = "num" /\ ps.v[1] > 0
    \/ ps.kind = "tuple" /\ Len(ps.v) = 2 /\ ps.v[1] > 0 /\ ps.v[2] > 0

\* Two non-empty arrays of one shape and a valid pixel size.
ValidChangeArgs ==
    /\ isinstance_ndarray(args.mask1) /\ isinstance_ndarray(args.mask2)
    /\ args.mask1.shape = args.mask2.shape
    /\ Size(args.mask1) > 0
    /\ ValidPixelSize(args.pixel_size)

ChangeReturned == Done("water_change") /\ ret.ok

\* Pixel counts of the two masks of the call: gained (False then True), lost
\* (True then False) and the True pixels of mask1.
GainedCount ==
    Cardinality({i \in 1..Size(args.mask1) :
                    args.mask1.data[i] = 0 /\ args.mask2.data[i] # 0})

LostCount ==
    Cardinality({i \in 1..Size(args.mask1) :
                    args.mask1.data[i] # 0 /\ args.mask2.data[i] = 0})

Mask1Count ==
    Cardinality({i \in 1..Size(args.mask1) : args.mask1.data[i] # 0})

\* C5: gained_area is the number of pixels False in mask1 and True in mask2
\* times the pixel area, lost_area the number of pixels True in mask1 and
\* False in mask2 times the pixel area, and net_change is their difference.
C5_GainedLostNet ==
    ChangeReturned =>
        LET g == GainedCount
            l == LostCount
        IN  /\ ret.val.gained_area = AreaKm2(g, args.pixel_size)
            /\ ret.val.lost_area = AreaKm2(l, args.pixel_size)
            /\ ret.val.net_change = AreaKm2(g - l, args.pixel_size)

\* C5 witness: a call that gained and lost different, nonzero pixel counts.
C5_Witness ==
    /\ ChangeReturned
    /\ GainedCount > 0 /\ LostCount > 0 /\ GainedCount # LostCount

\* C6: a valid call never fails and change_percent is never NaN; when mask1
\* has a True pixel it is net_change / (area of mask1) * 100, and when mask1
\* has none it is +Inf if gained_area > 0 and 0 otherwise.
C6_ChangePercent ==
    (Done("water_change") /\ ValidChangeArgs) =>
        /\ ret.ok
        /\ ~IsNaN(ret.val.change_percent)
        /\ LET g == GainedCount
               l == LostCount
               c == Mask1Count
           IN  ret.val.change_percent =
                   IF c > 0 THEN Rat((g - l) * 100, c)
                   ELSE IF g > 0 THEN Inf(1) ELSE FromInt(0)

\* C6 witness: mask1 has no True pixel and mask2 has one, so that
\* change_percent is +Inf.
C6_Witness ==
    /\ ChangeReturned
    /\ Mask1Count = 0
    /\ GainedCount > 0
    /\ ret.val.change_percent = Inf(1)

-----------------------------------------------------------------------------
(* Properties of the index calculator (indices.py and core.py).            *)

TwoBandOps ==
    {"ndvi", "ndwi", "savi", "core_ndvi", "core_ndwi", "mndwi", "ndbi",
     "core_savi"}

\* The normalized differences: the NaN/Inf-substitution convention of
\* indices.py and the epsilon-in-denominator convention of core.py.
SubstitutionOps == {"ndvi", "ndwi"}

EpsilonOps == {"core_ndvi", "core_ndwi", "mndwi", "ndbi"}

IndexOps == TwoBandOps \cup {"evi", "core_evi"}

IndexDone == pc = "done" /\ op \in IndexOps

\* Every band of the call is an array with pixels, all of one shape.
SameShapedBands ==
    \A i \in 1..Len(args.bands) :
        /\ isinstance_ndarray(args.bands[i])
        /\ Size(args.bands[i]) > 0
        /\ args.bands[i].shape = args.bands[1].shape

\* A finite value within [-1, 1] (its denominator d + e * Eps is positive).
InUnitRange(x) ==
    /\ IsFinite(x)
    /\ \/ Abs(x.n) < x.d
       \/ Abs(x.n) = x.d /\ x.e >= 0

\* The operation o of the call applied to the bands b, with the call's
\* parameters.
IndexCall(o, b) ==
    CASE o = "ndvi" -> ndvi(b[1], b[2])
      [] o = "ndwi" -> ndwi(b[1], b[2])
      [] o = "savi" -> savi(b[1], b[2], args.L)
      [] o = "evi" ->
             evi(b[1], b[2], b[3], args.G, DefaultC1, DefaultC2, args.L)
      [] o = "core_ndvi" -> core_ndvi(b[1], b[2])
      [] o = "core_ndwi" -> core_ndwi(b[1], b[2])
      [] o = "mndwi" -> mndwi(b[1], b[2])
      [] o = "ndbi" -> ndbi(b[1], b[2])
      [] o = "core_savi" -> core_savi(b[1], b[2], args.L)
      [] o = "core_evi" ->
             core_evi(b[1], b[2], b[3], args.G, DefaultC1, DefaultC2, args.L)

\* The band with the same values supplied as real numbers.
AsReal(a) == Array(a.shape, "float64", a.data)

\* C7: for every index function and all same-shaped bands, NaN, zeros and
\* negative values among them, the output has the shape of the inputs,
\* holds no NaN and no infinity, and every value lies in [-1, 1].
C7_IndexOutputBounded ==
    (IndexDone /\ SameShapedBands /\ ret.ok) =>
        /\ ret.val.shape = args.bands[1].shape
        /\ \A i \in 1..Size(ret.val) : InUnitRange(ret.val.data[i])

\* C8: both conventions for the two-band indices yield exactly 0 at every
\* pixel where A + B = 0, whatever the values of A and B with that sum.
C8_ZeroSumPixelIsZero ==
    (pc = "done" /\ op \in SubstitutionOps \cup EpsilonOps
        /\ SameShapedBands /\ ret.ok) =>
        \A i \in 1..Size(ret.val) :
            FAdd(as_float(el(args.bands[1], i)),
                 as_float(el(args.bands[2], i))) = FromInt(0)
                => ret.val.data[i] = FromInt(0)

\* C9: every two-band index function validates its bands first, so a call
\* with two arrays (with pixels) of different shapes fails.
C9_ShapeMismatchFails ==
    (pc = "done" /\ op \in TwoBandOps
        /\ isinstance_ndarray(args.bands[1]) /\ Size(args.bands[1]) > 0
        /\ isinstance_ndarray(args.bands[2]) /\ Size(args.bands[2]) > 0
        /\ args.bands[1].shape # args.bands[2].shape) =>
        ~ret.ok

\* C10: index functions compute in floating point whatever the element type:
\* the result for unsigned integer bands is the result for the same values
\* supplied as real numbers.
C10_IntegerBandsAsReals ==
    (IndexDone /\ SameShapedBands /\ ret.ok) =>
        ret = IndexCall(op, [i \in 1..Len(args.bands) |->
                                AsReal(args.bands[i])])

-----------------------------------------------------------------------------
(* Properties of water_stats.                                              *)

\* A call of water_stats with a non-empty mask and a valid pixel size.
ValidStatsArgs ==
    /\ isinstance_ndarray(args.water_mask)
    /\ Size(args.water_mask) > 0
    /\ ValidPixelSize(args.pixel_size)

\* The number of True pixels of the call's mask.
WaterCount ==
    Cardinality({i \in 1..Size(args.water_mask) : args.water_mask.data[i] # 0})

\* C11: on a non-empty mask with a valid pixel size water_stats returns
\* total_area = (number of True pixels) x pixel area in km2 and
\* coverage_percent = (number of True pixels) / (number of pixels) x 100, so
\* an all-False mask gives 0 and 0, an all-True mask gives 100, and
\* coverage_percent always lies in [0, 100].
C11_AreaAndCoverage ==
    (Done("water_stats") /\ ValidStatsArgs) =>
        LET c == WaterCount
            n == Size(args.water_mask)
            cov == ret.val.coverage_percent
        IN  /\ ret.ok
            /\ ret.val.total_area = AreaKm2(c, args.pixel_size)
            /\ cov = Rat(c * 100, n)
            /\ FLe(FromInt(0), cov) /\ FLe(cov, FromInt(100))
            /\ (c = 0 => ret.val.total_area = FromInt(0) /\ cov = FromInt(0))
            /\ (c = n => cov = FromInt(100))

\* C11 witness: a returned call on a mask that is partly water, with
\* rectangular pixels.
C11_Witness ==
    /\ Done("water_stats") /\ ret.ok
    /\ WaterCount > 0 /\ WaterCount < Size(args.water_mask)
    /\ args.pixel_size.kind = "tuple"
    /\ ret.val.coverage_percent # FromInt(0)

-----------------------------------------------------------------------------
(* Properties of the input validation of the analysis functions.           *)

\* C12: water_change on two arrays of different shapes raises the
\* shape-mismatch ValueError whatever the pixel_size argument is, and
\* returns no result.
C12_ShapeMismatchRaises ==
    (/\ Done("water_change")
     /\ isinstance_ndarray(args.mask1) /\ isinstance_ndarray(args.mask2)
     /\ args.mask1.shape # args.mask2.shape)
        => ret = Raise("ValueError")

\* C12 witness: two non-empty masks of one size and different shapes, and
\* the call failed.
C12_Witness ==
    /\ Done("water_change")
    /\ isinstance_ndarray(args.mask1) /\ isinstance_ndarray(args.mask2)
    /\ args.mask1.shape # args.mask2.shape
    /\ Size(args.mask1) = Size(args.mask2) /\ Size(args.mask1) > 0
    /\ ValidPixelSize(args.pixel_size)
    /\ ~ret.ok

AnalysisOps == {"water_stats", "water_change", "get_water_bodies"}

AnalysisDone == pc = "done" /\ op \in AnalysisOps

\* The mask arguments of the call pass the function's own checks.
MasksValid ==
    IF op = "water_change" THEN ValidChangeArgs
    ELSE isinstance_ndarray(args.water_mask) /\ Size(args.water_mask) > 0

\* A scalar <= 0, a tuple whose length is not 2, or a tuple with an
\* element <= 0.
InvalidParameter(ps) ==
    \/ ps.kind = "num" /\ ps.v[1] <= 0
    \/ ps.kind = "tuple" /\ Len(ps.v) # 2
    \/ ps.kind = "tuple" /\ Len(ps.v) = 2 /\ (ps.v[1] <= 0 \/ ps.v[2] <= 0)

\* The outcome of the same call with another pixel size.
Recall(ps) ==
    CASE op = "water_stats" -> water_stats(args.water_mask, ps)
      [] op = "water_change" -> water_change(args.mask1, args.mask2, ps)
      [] op = "get_water_bodies" ->
             get_water_bodies(args.water_mask, ps, args.min_area)

\* The areas a returned call reports are pixel counts times w x h / 10^6.
AreasUsePixelArea ==
    CASE op = "water_stats" ->
             ret.val.total_area = AreaKm2(WaterCount, args.pixel_size)
      [] op = "water_change" ->
             ret.val.gained_area = AreaKm2(GainedCount, args.pixel_size)
      [] op = "get_water_bodies" ->
             args.min_area.none =>
                 \A i \in DOMAIN ret.val.areas :
                     ret.val.areas[i] =
                         AreaKm2(Count(ret.val.labeled.data, i),
                                 args.pixel_size)

\* C13: each of water_stats, water_change and get_water_bodies fails on a
\* pixel size that is not a positive scalar or a 2-tuple of positive
\* numbers, with ValueError for a scalar <= 0, a tuple of another length
\* or a tuple with an element <= 0; a positive scalar s gives the result of
\* the tuple (s, s), and a tuple (w, h) the pixel area w x h / 10^6 km2.
C13_PixelSizeValidated ==
    AnalysisDone =>
        LET ps == args.pixel_size
        IN  /\ ~ValidPixelSize(ps) => ~ret.ok
            /\ (MasksValid /\ InvalidParameter(ps))
                   => ret = Raise("ValueError")
            /\ (MasksValid /\ ValidPixelSize(ps)) =>
                   /\ ret.ok
                   /\ AreasUsePixelArea
                   /\ ps.kind = "num"
                          => ret = Recall(Tuple(<<ps.v[1], ps.v[1]>>))

\* C13 witness: get_water_bodies returned areas for pixels that are not
\* square.
C13_Witness ==
    /\ Done("get_water_bodies") /\ ret.ok
    /\ args.pixel_size.kind = "tuple"
    /\ args.pixel_size.v[1] # args.pixel_size.v[2]
    /\ DOMAIN ret.val.areas # {}

-----------------------------------------------------------------------------
(* Properties of the band validator (indices.validate_bands).              *)

NumericTypes == {"float64", "uint8", "int64", "bool"}

\* A non-empty 2-D array of numbers.
IsBand(b) ==
    /\ isinstance_ndarray(b)
    /\ Size(b) > 0

Is2DNumeric(b) ==
    /\ isinstance_ndarray(b)
    /\ Len(b.shape) = 2
    /\ b.dtype \in NumericTypes

C15_RejectsNon2DNumeric ==
    (/\ Done("validate_bands")
     /\ \E i \in 1..Len(args.bands) :
            isinstance_ndarray(args.bands[i]) /\ ~Is2DNumeric(args.bands[i]))
        => ~ret.ok

-----------------------------------------------------------------------------
(* Properties of the parameters of savi and evi.                           *)

\* The bands of the call are non-empty arrays of one shape.
BandsPass ==
    \A i \in 1..Len(args.bands) :
        IsBand(args.bands[i]) /\ args.bands[i].shape = args.bands[1].shape

\* C16: on valid bands savi returns for every L in [0, 1], endpoints
\* included, and raises ValueError (computing nothing) for every other L;
\* evi returns when G > 0 and L >= 0 and raises ValueError otherwise.
C16_ParameterRanges ==
    /\ (Done("savi") /\ BandsPass) =>
           IF FLe(FromInt(0), args.L) /\ FLe(args.L, FromInt(1))
           THEN ret.ok
           ELSE ret = Raise("ValueError")
    /\ (Done("evi") /\ BandsPass) =>
           IF FLt(FromInt(0), args.G) /\ FLe(FromInt(0), args.L)
           THEN ret.ok
           ELSE ret = Raise("ValueError")

\* C16 witness: savi accepted an endpoint of [0, 1].
C16_Witness ==
    /\ Done("savi") /\ BandsPass /\ ret.ok
    /\ args.L \in {FromInt(0), FromInt(1)}

-----------------------------------------------------------------------------
(* Properties of the reductions of utils.py.                               *)

StatOps == {"sum", "mean", "std", "min", "max"}

StatDone == pc = "done" /\ op \in StatOps

\* The value a reduction returned is NaN.
ReturnedNaN == IF op = "std" THEN IsNaN(ret.val.sqrt_of) ELSE IsNaN(ret.val)

\* C17: each of sum, mean, std, min and max raises on an array with no
\* element and on an array whose every element is NaN, and on an array
\* with an element that is not NaN it returns a value that is not NaN.
C17_ReductionsIgnoreNaN ==
    (StatDone /\ isinstance_ndarray(args.data)) =>
        LET a == args.data
        IN  IF Size(a) = 0 \/ \A i \in 1..Size(a) : IsNaN(a.data[i])
            THEN ~ret.ok
            ELSE ret.ok /\ ~ReturnedNaN

-----------------------------------------------------------------------------
(* Further properties of get_water_bodies and water_change.                *)

\* A call of get_water_bodies with a non-empty mask, a valid pixel size and
\* a min_area.
ValidFilterArgs ==
    /\ Done("get_water_bodies")
    /\ isinstance_ndarray(args.water_mask) /\ Size(args.water_mask) > 0
    /\ ValidPixelSize(args.pixel_size)
    /\ ~args.min_area.none

\* The area in square metres of region l of the labelling lb.
RegionM2(lb, l) == Count(lb.labeled.data, l) * PixelM2(args.pixel_size)

C19_AdmitAllIsNoOp ==
    ValidFilterArgs =>
        LET lb == OrigLabelling
        IN  (\A l \in 1..lb.num_features : RegionM2(lb, l) >= args.min_area.v)
                => LET plain == get_water_bodies_rounded(args.water_mask,
                                                         args.pixel_size, None)
                   IN  /\ ret.ok
                       /\ ret.val.labeled.shape = plain.val.labeled.shape
                       /\ ret.val.labeled.data = plain.val.labeled.data
                       /\ ret.val.areas = plain.val.areas

Mask2Count ==
    Cardinality({i \in 1..Size(args.mask2) : args.mask2.data[i] # 0})

\* C20: when the two masks of water_change hold equally many True pixels,
\* gained_area equals lost_area and net_change and change_percent are 0.
C20_EqualCountsCancel ==
    (ChangeReturned /\ Mask1Count = Mask2Count) =>
        /\ ret.val.gained_area = ret.val.lost_area
        /\ ret.val.net_change = FromInt(0)
        /\ ret.val.change_percent = FromInt(0)

\* C20 witness: equally many True pixels, none of them in both masks.
C20_Witness ==
    /\ ChangeReturned
    /\ Mask1Count = Mask2Count /\ Mask1Count > 0
    /\ \A i \in 1..Size(args.mask1) :
          args.mask1.data[i] = 0 \/ args.mask2.data[i] = 0
    /\ ret.val.gained_area # FromInt(0)

-----------------------------------------------------------------------------
(* Further properties of the two-band indices.                             *)

\* C21: ndvi and ndwi, of indices.py and of core.py, applied to two
\* identical bands return 0 at every pixel, the pixels where the band is 0
\* or NaN included.
C21_IdenticalBandsGiveZero ==
    (/\ pc = "done"
     /\ op \in {"ndvi", "ndwi", "core_ndvi", "core_ndwi"}
     /\ SameShapedBands
     /\ args.bands[1] = args.bands[2])
        => /\ ret.ok
           /\ \A i \in 1..Size(ret.val) : ret.val.data[i] = FromInt(0)

-----------------------------------------------------------------------------
(* Failures of the analysis functions and of the validated indices.        *)

CheckedOps == AnalysisOps \cup {"ndvi", "ndwi", "savi", "evi"}

\* The checks of the call's function, stated on its arguments alone: array
\* types, shape agreement, emptiness, pixel size and index parameters.
ChecksPass ==
    CASE op \in AnalysisOps -> MasksValid /\ ValidPixelSize(args.pixel_size)
      [] op \in {"ndvi", "ndwi"} -> BandsPass
      [] op = "savi" ->
             /\ BandsPass
             /\ FLe(FromInt(0), args.L) /\ FLe(args.L, FromInt(1))
      [] op = "evi" ->
             /\ BandsPass
             /\ FLt(FromInt(0), args.G) /\ FLe(FromInt(0), args.L)

\* C22: a call of water_stats, water_change, get_water_bodies, ndvi, ndwi,
\* savi or evi fails exactly when one of its checks fails, whatever the
\* pixels hold: no error arises once a mask is converted, labeled or
\* differenced or an index value is computed, and a failing call raises
\* TypeError or ValueError and returns nothing.
C22_FailuresAreChecks ==
    (pc = "done" /\ op \in CheckedOps) =>
        /\ ret.ok <=> ChecksPass
        /\ ~ret.ok => /\ ret.val = <<>>
                      /\ ret.err \in {"TypeError", "ValueError"}

\* C22 witness: get_water_bodies failed on its last check, the pixel size,
\* with a mask that has water to label.
C22_Witness ==
    /\ Done("get_water_bodies") /\ ~ret.ok
    /\ MasksValid /\ WaterCount > 0
    /\ ~ValidPixelSize(args.pixel_size)

-----------------------------------------------------------------------------
(* The caller's arrays.                                                    *)

FrameOps == AnalysisOps \cup {"ndvi", "ndwi", "savi", "evi"}

-----------------------------------------------------------------------------
(* Reductions along an axis.                                               *)

AxisOps == {"mean_axis", "std_axis", "min_axis", "max_axis"}

\* The cells of the slice of a 2-D array at index k (from 0) along an axis.
SliceCells(shape, axis, k) ==
    {i \in 1..Prod(shape) :
        IF axis = 0 THEN ColOf(shape, i) = k ELSE RowOf(shape, i) = k}

\* The array has a value that is not NaN, and a slice along the axis that
\* has none.
HasAllNaNSlice(array, axis) ==
    /\ isinstance_ndarray(array)
    /\ \E i \in 1..Size(array) : ~IsNaN(array.data[i])
    /\ \E k \in 0..(array.shape[IF axis = 0 THEN 2 ELSE 1] - 1) :
          \A i \in SliceCells(array.shape, axis, k) : IsNaN(array.data[i])

\* C24: mean, std, min or max along an axis of an array that is not all NaN
\* but has a slice along that axis that is all NaN raises the failure an
\* all-NaN array raises, and returns no result.
C24_AllNaNSliceRaises ==
    (pc = "done" /\ op \in AxisOps /\ HasAllNaNSlice(args.data, args.axis))
        => /\ ~ret.ok
           /\ ret.err = "ValueError"
           /\ ret = mean(Full(<<1, 1>>, "float64", NaN))

\* C24 witness: a minimum along the rows of an array whose first row is all
\* NaN and whose second is not.
C24_Witness ==
    /\ Done("min_axis")
    /\ args.axis = 1
    /\ args.data.shape = <<2, 1>>
    /\ IsNaN(args.data.data[1])
    /\ ~IsNaN(args.data.data[2])
    /\ ~ret.ok

-----------------------------------------------------------------------------
(* Further properties of the change calculator (water_change).             *)

\* The gained and the lost pixels as water_change computes them.
GainedPixels ==
    LET g == logical_and_not_first(AsBool(args.mask1), AsBool(args.mask2))
    IN  {i \in 1..Size(g) : g.data[i]}

LostPixels ==
    LET l == logical_and_not_second(AsBool(args.mask1), AsBool(args.mask2))
    IN  {i \in 1..Size(l) : l.data[i]}

\* The area of a mask of c True pixels as the float the analysis functions
\* compute: the pixel count times the pixel area.
AreaOfCount(c) == fl_mul(fl_int(c), pixel_area_rounded(args.pixel_size).val)

\* What C25 says apart from the value of net_change: the gained pixel count
\* minus the lost one is the True-count of mask2 minus that of mask1, no
\* pixel is both gained and lost, and identical masks give gained_area =
\* lost_area = net_change = change_percent = 0.
CountsBalance ==
    /\ ret.val.gained_area = AreaOfCount(Cardinality(GainedPixels))
    /\ ret.val.lost_area = AreaOfCount(Cardinality(LostPixels))
    /\ Cardinality(GainedPixels) - Cardinality(LostPixels)
           = Mask2Count - Mask1Count
    /\ GainedPixels \cap LostPixels = {}
    /\ args.mask1 = args.mask2 =>
           /\ ret.val.gained_area = FloatZero
           /\ ret.val.lost_area = FloatZero
           /\ ret.val.net_change = FloatZero
           /\ ret.val.change_percent = FloatZero

\* C25 as stated: net_change equals the area of mask2 minus the area of
\* mask1, the gained pixel count minus the lost one being the True-count of
\* mask2 minus that of mask1; no pixel is both gained and lost; identical
\* masks give gained_area = lost_area = net_change = change_percent = 0.
C25_NetIsAreaDifference ==
    ChangeReturned =>
        /\ ret.val.net_change =
               fl_sub(AreaOfCount(Mask2Count), AreaOfCount(Mask1Count))
        /\ CountsBalance

\* C25 amended: net_change is gained_area minus lost_area, which is the
\* area of mask2 minus the area of mask1 only up to floating-point
\* rounding; the pixel counts balance exactly, no pixel is both gained and
\* lost, and identical masks give all zeros.
C25_NetIsGainMinusLoss ==
    ChangeReturned =>
        /\ ret.val.net_change = fl_sub(ret.val.gained_area, ret.val.lost_area)
        /\ CountsBalance

\* C25 witness: a call whose net_change is not the rounded difference of the
\* two masks' areas.
C25_Witness ==
    /\ ChangeReturned
    /\ Mask1Count > 0 /\ Mask2Count > 0
    /\ ret.val.net_change #
           fl_sub(AreaOfCount(Mask2Count), AreaOfCount(Mask1Count))

\* C29: for same-shaped masks and a valid pixel size, the call with the
\* masks swapped returns the lost_area of this one as its gained_area, the
\* gained_area of this one as its lost_area, and the negated net_change.
C29_SwapExchangesGainAndLoss ==
    (Done("water_change") /\ ValidChangeArgs) =>
        LET swapped == water_change(args.mask2, args.mask1, args.pixel_size)
        IN  /\ ret.ok /\ swapped.ok
            /\ swapped.val.gained_area = ret.val.lost_area
            /\ swapped.val.lost_area = ret.val.gained_area
            /\ swapped.val.net_change = FNeg(ret.val.net_change)

\* C29 witness: a call that gained two pixels and lost one.
C29_Witness ==
    /\ ChangeReturned
    /\ GainedCount = 2 /\ LostCount = 1
    /\ ret.val.gained_area # ret.val.lost_area

\* C30: gained_area and lost_area are not negative, lost_area is at most the
\* area of mask1, and when mask1 has a True pixel change_percent is at least
\* -100, and is -100 exactly when mask2 has no True pixel.
C30_ChangeBounds ==
    ChangeReturned =>
        /\ FLe(FromInt(0), ret.val.gained_area)
        /\ FLe(FromInt(0), ret.val.lost_area)
        /\ FLe(ret.val.lost_area, AreaKm2(Mask1Count, args.pixel_size))
        /\ Mask1Count > 0 =>
               /\ FLe(FromInt(-100), ret.val.change_percent)
               /\ ret.val.change_percent = FromInt(-100) <=> Mask2Count = 0

\* C30 witness: all the water of mask1 is lost.
C30_Witness ==
    /\ ChangeReturned
    /\ Mask1Count > 0 /\ Mask2Count = 0
    /\ ret.val.change_percent = FromInt(-100)

-----------------------------------------------------------------------------
(* The areas of the regions and the total area.                            *)

\* sum(areas_dict.values()): the floats added from 0 in the order of the keys.
RECURSIVE float_sum(_, _)
float_sum(areas, n) ==
    IF n = 0 THEN FloatZero ELSE fl_add(float_sum(areas, n - 1), areas[n])

\* The number of pixels of the regions 1..n of a labelled map.
RECURSIVE PixelsOfRegions(_, _)
PixelsOfRegions(labels, n) ==
    IF n = 0 THEN 0 ELSE PixelsOfRegions(labels, n - 1) + Count(labels, n)

\* C27 as stated: without min_area, the sum of the areas of the mapping
\* equals the total_area water_stats returns for the same mask and pixel
\* size.
C27_AreasSumToTotal ==
    Unfiltered =>
        LET stats == water_stats_rounded(args.water_mask, args.pixel_size)
        IN  /\ stats.ok
            /\ float_sum(ret.val.areas, Len(ret.val.areas))
                   = stats.val.total_area

\* C27 amended: without min_area, every True pixel is counted in exactly
\* one region and no False pixel is counted, so the pixel counts of the
\* regions add up to the number of True pixels; each area is its region's
\* pixel count times the pixel area and total_area is the number of True
\* pixels times the pixel area (so the areas add up to total_area up to
\* floating-point rounding).
C27_PixelsCountedOnce ==
    Unfiltered =>
        LET stats == water_stats_rounded(args.water_mask, args.pixel_size)
            labels == ret.val.labeled.data
            n == Len(ret.val.areas)
        IN  /\ stats.ok
            /\ \A i \in Pixels :
                  IF args.water_mask.data[i] # 0 THEN labels[i] \in 1..n
                  ELSE labels[i] = 0
            /\ PixelsOfRegions(labels, n) = WaterCount
            /\ \A l \in 1..n :
                  ret.val.areas[l] = AreaOfCount(Count(labels, l))
            /\ stats.val.total_area = AreaOfCount(WaterCount)

\* C27 witness: two regions or more whose areas do not add up to the
\* total_area exactly.
C27_Witness ==
    /\ Unfiltered
    /\ Len(ret.val.areas) >= 2
    /\ float_sum(ret.val.areas, Len(ret.val.areas)) #
           water_stats_rounded(args.water_mask, args.pixel_size)
               .val.total_area

-----------------------------------------------------------------------------
(* The labelled map and the keys of the area mapping.                      *)

\* C26: with or without min_area, the keys of the returned area mapping are
\* exactly the positive labels that occur in the returned map, which has
\* the shape of the mask and a nonzero label only where the mask is True.
C26_KeysAreLabels ==
    BodiesReturned =>
        /\ DOMAIN ret.val.areas = {l \in LabelsUsed : l > 0}
        /\ ret.val.labeled.shape = args.water_mask.shape
        /\ Len(ret.val.labeled.data) = Size(args.water_mask)
        /\ \A i \in Pixels :
              ret.val.labeled.data[i] # 0 => args.water_mask.data[i] # 0

\* C26 witness: a filtered call that discarded the first of two regions, so
\* that the one key is the label the second region was renumbered to.
C26_Witness ==
    /\ Filtered
    /\ OrigLabelling.num_features = 2
    /\ DOMAIN ret.val.areas = {1}
    /\ \E i \in Pixels :
          OrigLabelling.labeled.data[i] = 2 /\ ret.val.labeled.data[i] = 1

\* The True pixels joined to pixel i by a path of horizontally or vertically
\* adjacent True pixels, grown from the set S.
RECURSIVE Joined(_, _, _)
Joined(mask, shape, S) ==
    LET T == S \cup {j \in 1..Len(mask) :
                        mask[j] # 0 /\ \E i \in S : Touch(shape, i, j)}
    IN  IF T = S THEN S ELSE Joined(mask, shape, T)

\* Two pixels touch at a corner only.
Diagonal(shape, i, j) ==
    /\ Abs(RowOf(shape, i) - RowOf(shape, j)) = 1
    /\ Abs(ColOf(shape, i) - ColOf(shape, j)) = 1

\* C28: without min_area, two True pixels that are horizontally or
\* vertically adjacent carry the same label, and two True pixels that touch
\* only diagonally, with no path of horizontally or vertically adjacent
\* True pixels between them, carry different labels.
C28_FourConnectivity ==
    Unfiltered =>
        LET mask == args.water_mask.data
            shape == args.water_mask.shape
            out == ret.val.labeled.data
        IN  \A i, j \in Pixels :
                (mask[i] # 0 /\ mask[j] # 0) =>
                    /\ Touch(shape, i, j) => out[i] = out[j]
                    /\ (Diagonal(shape, i, j)
                           /\ j \notin Joined(mask, shape, {i}))
                          => out[i] # out[j]

\* C28 witness: the two True pixels of a 2 x 2 mask lie on its diagonal and
\* are labelled 1 and 2.
C28_Witness ==
    /\ Unfiltered
    /\ args.water_mask.shape = <<2, 2>>
    /\ args.water_mask.data = <<1, 0, 0, 1>>
    /\ ret.val.labeled.data = <<1, 0, 0, 2>>

====
